---------------------------- MODULE Spec2Model ----------------------------
(***************************************************************************)
(* Model of irproc (src/irproc.py): quick IR spectrum processing.          *)
(*                                                                         *)
(* Conventions of the model                                                *)
(*  - A float is an extended rational: a finite value n/d in lowest terms  *)
(*    with d > 0, or one of NaN, +inf, -inf with IEEE-754 arithmetic and   *)
(*    comparisons on them. Rounding of finite results is not modelled.     *)
(*  - A Python str is a sequence of tokens (TLA+ strings); concatenation   *)
(*    is \o, and "(", ")" are one-character tokens.                        *)
(*  - Sample indices are 0-based as in the source; At(a, i) reads a[i].    *)
(*  - A call either returns a value or raises: [raised, exc, val].         *)
(***************************************************************************)
EXTENDS Integers, Sequences, FiniteSets, TLC

VARIABLES d, fp, gr, m

vars == <<d, fp, gr, m>>

(***************************************************************************)
(* Bounds of the model.                                                    *)
(***************************************************************************)
MaxDen == 2

MaxSig == 5

MaxLen == 5

MaxFiles == 2

(***************************************************************************)
(* Floats as extended rationals.                                           *)
(***************************************************************************)
Abs(a) == IF a < 0 THEN -a ELSE a

RECURSIVE Gcd(_, _)
Gcd(a, b) == IF b = 0 THEN a ELSE Gcd(b, a % b)

Sgn(a) == IF a < 0 THEN -1 ELSE IF a > 0 THEN 1 ELSE 0

Fin(n, dd) ==
  LET g == Gcd(Abs(n), Abs(dd))
  IN  [k |-> "fin", n |-> (Sgn(dd) * n) \div g, d |-> Abs(dd) \div g]

F(n) == [k |-> "fin", n |-> n, d |-> 1]

NaN == [k |-> "nan", n |-> 0, d |-> 1]

Inf(s) == [k |-> "inf", n |-> s, d |-> 1]

IsFin(a) == a.k = "fin"

IsNaN(a) == a.k = "nan"

FLt(a, b) ==
  IF IsNaN(a) \/ IsNaN(b) THEN FALSE
  ELSE IF IsFin(a) /\ IsFin(b) THEN a.n * b.d < b.n * a.d
  ELSE IF IsFin(a) THEN b.n > 0
  ELSE IF IsFin(b) THEN a.n < 0
  ELSE a.n < b.n

FEq(a, b) == ~IsNaN(a) /\ ~IsNaN(b) /\ a = b

FLe(a, b) == FLt(a, b) \/ FEq(a, b)

FNeg(a) == IF IsNaN(a) THEN NaN ELSE [a EXCEPT !.n = -a.n]

FAdd(a, b) ==
  IF IsNaN(a) \/ IsNaN(b) THEN NaN
  ELSE IF IsFin(a) /\ IsFin(b) THEN Fin(a.n * b.d + b.n * a.d, a.d * b.d)
  ELSE IF IsFin(a) THEN b
  ELSE IF IsFin(b) THEN a
  ELSE IF a.n = b.n THEN a ELSE NaN

FSub(a, b) == FAdd(a, FNeg(b))

FMul(a, b) ==
  IF IsNaN(a) \/ IsNaN(b) THEN NaN
  ELSE IF IsFin(a) /\ IsFin(b) THEN Fin(a.n * b.n, a.d * b.d)
  ELSE IF Sgn(a.n) * Sgn(b.n) = 0 THEN NaN
  ELSE Inf(Sgn(a.n) * Sgn(b.n))

\* numpy float division: x/0 is +-inf, 0/0 is NaN (a warning, no exception)
FDiv(a, b) ==
  IF IsNaN(a) \/ IsNaN(b) THEN NaN
  ELSE IF IsFin(a) /\ IsFin(b)
       THEN IF b.n # 0 THEN Fin(a.n * b.d, a.d * b.n)
            ELSE IF a.n = 0 THEN NaN ELSE Inf(Sgn(a.n))
  ELSE IF IsFin(b) THEN Inf(a.n * (IF b.n < 0 THEN -1 ELSE 1))
  ELSE IF IsFin(a) THEN F(0)
  ELSE NaN

(***************************************************************************)
(* Calls, strings.                                                         *)
(***************************************************************************)
Return(v) == [raised |-> FALSE, exc |-> "", val |-> v]

Raise(e) == [raised |-> TRUE, exc |-> e, val |-> <<>>]

At(a, i) == a[i + 1]

\* str.join on a list of one-token strings
RECURSIVE Join(_, _)
Join(sep, res) ==
  IF Len(res) = 0 THEN <<>>
  ELSE IF Len(res) = 1 THEN <<res[1]>>
  ELSE <<res[1], sep>> \o Join(sep, Tail(res))

(***************************************************************************)
(* desc: describe a peak based on transmittance and width.                 *)
(***************************************************************************)
\* mutant: out-of-range transmittance is clamped into the nearest bucket
DescClamp(trel, w, br_w, sep) ==
  LET tag == IF FLe(trel, F(33)) THEN <<"s">>
             ELSE IF FLt(F(33), trel) /\ FLt(trel, F(66)) THEN <<"m">>
             ELSE <<"w">>
      res == IF FLt(br_w, w) THEN Append(tag, "br") ELSE tag
  IN  Return(<<"(">> \o Join(sep, res) \o <<")">>)

\* mutant: the breadth test is w >= br_w
DescBrGe(trel, w, br_w, sep) ==
  LET tag == IF FLe(F(0), trel) /\ FLe(trel, F(33)) THEN <<"s">>
             ELSE IF FLt(F(33), trel) /\ FLt(trel, F(66)) THEN <<"m">>
             ELSE IF FLt(F(66), trel) /\ FLe(trel, F(100)) THEN <<"w">>
             ELSE <<>>
      res == IF FLe(br_w, w) THEN Append(tag, "br") ELSE tag
  IN  IF tag = <<>> THEN Raise("ValueError")
      ELSE Return(<<"(">> \o Join(sep, res) \o <<")">>)

Desc(trel, w, br_w, sep) ==
  LET tag == IF FLe(F(0), trel) /\ FLe(trel, F(33)) THEN <<"s">>
             ELSE IF FLt(F(33), trel) /\ FLt(trel, F(66)) THEN <<"m">>
             ELSE IF FLt(F(66), trel) /\ FLe(trel, F(100)) THEN <<"w">>
             ELSE <<>>
      res == IF FLt(br_w, w) THEN Append(tag, "br") ELSE tag
  IN  IF tag = <<>> THEN Raise("ValueError")
      ELSE Return(<<"(">> \o Join(sep, res) \o <<")">>)

(***************************************************************************)
(* scipy.signal.find_peaks(x, prominence=, width=, distance=), as called   *)
(* by ms_report: local maxima, then the distance selection, then the       *)
(* prominence condition, then the width condition, in this order.          *)
(***************************************************************************)
FMax(a, b) == IF FLt(b, a) THEN a ELSE b

Ceil(a) == -((-a.n) \div a.d)

\* while i_ahead < i_max and x[i_ahead] == x[i]: i_ahead += 1
RECURSIVE PlateauEnd(_, _, _)
PlateauEnd(x, i, i_ahead) ==
  IF i_ahead < Len(x) - 1 /\ FEq(At(x, i_ahead), At(x, i))
  THEN PlateauEnd(x, i, i_ahead + 1)
  ELSE i_ahead

\* _local_maxima_1d: midpoints of the plateaus that rise on the left and
\* fall on the right; the first and the last sample are never maxima
RECURSIVE LocalMaximaFrom(_, _)
LocalMaximaFrom(x, i) ==
  IF ~(i < Len(x) - 1) THEN <<>>
  ELSE IF FLt(At(x, i - 1), At(x, i))
       THEN LET i_ahead == PlateauEnd(x, i, i + 1)
            IN  IF FLt(At(x, i_ahead), At(x, i))
                THEN <<(i + (i_ahead - 1)) \div 2>>
                       \o LocalMaximaFrom(x, i_ahead + 1)
                ELSE LocalMaximaFrom(x, i + 1)
       ELSE LocalMaximaFrom(x, i + 1)

LocalMaxima(x) == LocalMaximaFrom(x, 1)

\* np.argsort(priority): positions in ascending priority. The sort is not
\* stable: tb (a ranking of the positions) is the order the sort happens to
\* leave equal priorities in.
ArgSort(priority, tb) ==
  LET n == Len(priority)
      Before(j, k) == \/ FLt(priority[j], priority[k])
                      \/ (FEq(priority[j], priority[k]) /\ tb[j] < tb[k])
  IN  [i \in 1..n |->
         CHOOSE j \in 1..n : Cardinality({k \in 1..n : Before(k, j)}) = i - 1]

\* the loop of _select_by_peak_distance over i = peaks_size-1 .. 0; the two
\* inner while loops clear keep[k] on the runs of neighbours of j closer
\* than distance_ (peaks is ascending, so the runs are all such k)
RECURSIVE SelectLoop(_, _, _, _, _)
SelectLoop(peaks, priority_to_position, distance_, i, keep) ==
  IF i = 0 THEN keep
  ELSE LET j == priority_to_position[i]
       IN  IF ~keep[j]
           THEN SelectLoop(peaks, priority_to_position, distance_, i - 1, keep)
           ELSE SelectLoop(peaks, priority_to_position, distance_, i - 1,
                  [k \in 1..Len(peaks) |->
                     /\ keep[k]
                     /\ ~(k < j /\ peaks[j] - peaks[k] < distance_)
                     /\ ~(k > j /\ peaks[k] - peaks[j] < distance_)])

\* mutant: the lowest priority is served first
SelectLowestFirst(peaks, priority, distance, tb) ==
  LET n == Len(peaks)
      asc == ArgSort(priority, tb)
  IN  SelectLoop(peaks, [i \in 1..n |-> asc[n + 1 - i]], Ceil(distance), n,
                 [k \in 1..n |-> TRUE])

\* _select_by_peak_distance(peaks, priority, distance): keep flags
SelectByPeakDistance(peaks, priority, distance, tb) ==
  SelectLoop(peaks, ArgSort(priority, tb), Ceil(distance), Len(peaks),
             [k \in 1..Len(peaks) |-> TRUE])

Filter(a, keep) ==
  LET idx == {k \in 1..Len(a) : keep[k]}
  IN  [i \in 1..Cardinality(idx) |->
         a[CHOOSE k \in idx : Cardinality({l \in idx : l < k}) = i - 1]]

\* while i_min <= i and x[i] <= x[peak]: track the minimum and its index
RECURSIVE LeftBase(_, _, _, _, _)
LeftBase(x, peak, i, left_min, base) ==
  IF 0 <= i /\ FLe(At(x, i), At(x, peak))
  THEN IF FLt(At(x, i), left_min)
       THEN LeftBase(x, peak, i - 1, At(x, i), i)
       ELSE LeftBase(x, peak, i - 1, left_min, base)
  ELSE [min |-> left_min, base |-> base]

\* while i <= i_max and x[i] <= x[peak]: track the minimum and its index
RECURSIVE RightBase(_, _, _, _, _)
RightBase(x, peak, i, right_min, base) ==
  IF i <= Len(x) - 1 /\ FLe(At(x, i), At(x, peak))
  THEN IF FLt(At(x, i), right_min)
       THEN RightBase(x, peak, i + 1, At(x, i), i)
       ELSE RightBase(x, peak, i + 1, right_min, base)
  ELSE [min |-> right_min, base |-> base]

\* _peak_prominences (wlen=None): per peak prominence, left and right base
PeakProminences(x, peaks) ==
  [pn \in 1..Len(peaks) |->
     LET peak == peaks[pn]
         l == LeftBase(x, peak, peak, At(x, peak), peak)
         r == RightBase(x, peak, peak, At(x, peak), peak)
     IN  [prominence |-> FSub(At(x, peak), FMax(l.min, r.min)),
          left_base |-> l.base, right_base |-> r.base]]

\* while i_min < i and height < x[i]: i -= 1
RECURSIVE LeftCross(_, _, _, _)
LeftCross(x, i_min, height, i) ==
  IF i_min < i /\ FLt(height, At(x, i)) THEN LeftCross(x, i_min, height, i - 1)
  ELSE i

\* while i < i_max and height < x[i]: i += 1
RECURSIVE RightCross(_, _, _, _)
RightCross(x, i_max, height, i) ==
  IF i < i_max /\ FLt(height, At(x, i)) THEN RightCross(x, i_max, height, i + 1)
  ELSE i

\* _peak_widths with rel_height = 0.5: width at half prominence, the two
\* intersection points interpolated linearly between samples
PeakWidths(x, peaks, prom) ==
  [pn \in 1..Len(peaks) |->
     LET peak == peaks[pn]
         height == FSub(At(x, peak), FMul(prom[pn].prominence, Fin(1, 2)))
         il == LeftCross(x, prom[pn].left_base, height, peak)
         left_ip == IF FLt(At(x, il), height)
                    THEN FAdd(F(il), FDiv(FSub(height, At(x, il)),
                                          FSub(At(x, il + 1), At(x, il))))
                    ELSE F(il)
         ir == RightCross(x, prom[pn].right_base, height, peak)
         right_ip == IF FLt(At(x, ir), height)
                     THEN FSub(F(ir), FDiv(FSub(height, At(x, ir)),
                                           FSub(At(x, ir - 1), At(x, ir))))
                     ELSE F(ir)
     IN  FSub(right_ip, left_ip)]

\* _select_by_property(property, pmin, None): pmin <= property
SelectByProperty(prop, pmin) == [k \in 1..Len(prop) |-> FLe(pmin, prop[k])]

Heights(x, peaks) == [k \in 1..Len(peaks) |-> At(x, peaks[k])]

\* the stages of find_peaks
StageDistance(x, maxima, distance, tb) ==
  Filter(maxima, SelectByPeakDistance(maxima, Heights(x, maxima), distance, tb))

StageProminence(x, peaks, prominence) ==
  LET prom == PeakProminences(x, peaks)
      keep == SelectByProperty([k \in 1..Len(peaks) |-> prom[k].prominence],
                               prominence)
  IN  [peaks |-> Filter(peaks, keep), prom |-> Filter(prom, keep)]

StageWidth(x, peaks, prom, width) ==
  LET widths == PeakWidths(x, peaks, prom)
      keep == SelectByProperty(widths, width)
  IN  [peaks |-> Filter(peaks, keep), widths |-> Filter(widths, keep)]

(***************************************************************************)
(* process_file: break the file down into x and y value arrays. A file is  *)
(* [cols: the column names of the CSV, w: the cm-1 column, t: the %T       *)
(* column]; a Python truth value is an integer (False = 0, True = 1).      *)
(***************************************************************************)
Truthy(v) == v # 0

\* np.max over a non-empty array of finite values
RECURSIVE NpMax(_)
NpMax(a) == IF Len(a) = 1 THEN a[1] ELSE FMax(a[1], NpMax(Tail(a)))

ProcessFile(file, normalize) ==
  IF ~({"cm-1", "%T"} \subseteq file.cols) THEN Raise("KeyError")
  ELSE LET ir_w == file.w
           ir_t_raw == file.t
           ir_inv == [i \in 1..Len(ir_t_raw) |-> FSub(F(100), ir_t_raw[i])]
       IN  IF Truthy(normalize)
           THEN IF Len(ir_inv) = 0 THEN Raise("ValueError")  \* np.max of an empty array
                ELSE Return([ir_w |-> ir_w,
                             ir_t |-> [i \in 1..Len(ir_inv) |->
                                         FSub(F(100),
                                              FDiv(FMul(F(100), ir_inv[i]),
                                                   NpMax(ir_inv)))]])
           ELSE Return([ir_w |-> ir_w, ir_t |-> ir_t_raw])

(***************************************************************************)
(* ms_report: a generator of (p, de), run step by step below.              *)
(***************************************************************************)
\* 100 - ir_t, elementwise
Inverted(ir_t) == [i \in 1..Len(ir_t) |-> FSub(F(100), ir_t[i])]

(***************************************************************************)
(* generate_report: the report of one file, and what it hands to the plot. *)
(***************************************************************************)
\* f"{v:.0f}": the nearest integer, ties to even
Fmt0f(v) ==
  LET q == v.n \div v.d
      r == v.n - q * v.d
  IN  ToString(IF 2 * r < v.d THEN q
               ELSE IF 2 * r > v.d THEN q + 1
               ELSE IF q % 2 = 0 THEN q ELSE q + 1)

\* report.append(f"{x[p]:.0f} {d}")
ReportEntry(x, p, de) == <<Fmt0f(At(x, p)), " ">> \o de

\* mutant: the new line is put in front of the report
ReportPrepend(report, entry) == <<entry>> \o report

ReportAppend(report, entry) == Append(report, entry)

\* ax.vlines(x[p], ...) and ax.text(x[p], y[p] - 8, f"{x[p]:.0f} {d[1:-1]}")
OverlayMark(x, y, p, de) ==
  [x |-> At(x, p), y |-> At(y, p),
   label |-> <<Fmt0f(At(x, p)), " ">> \o SubSeq(de, 2, Len(de) - 1)]

(***************************************************************************)
(* Idle values of the parts of the state a specification does not use.     *)
(***************************************************************************)
IdleD == [pc |-> "idle"]

IdleFp == [pc |-> "idle"]

IdleGr == [pc |-> "idle"]

IdleM == [pc |-> "idle"]

(***************************************************************************)
(* SpecDesc: desc applied to bounded inputs.                               *)
(***************************************************************************)
Seps == {" ", ","}

TrelInputs ==
  {Fin(n, dd) : n \in (-MaxDen)..(101 * MaxDen), dd \in 1..MaxDen}
    \cup {NaN, Inf(1), Inf(-1)}

WidthInputs == {Fin(n, dd) : n \in 0..(2 * MaxDen), dd \in 1..MaxDen}

BrInputs == {F(1), F(100)}

InitDesc ==
  /\ \E trel \in TrelInputs, w \in WidthInputs, br_w \in BrInputs, sep \in Seps :
       d = [pc |-> "call", trel |-> trel, w |-> w, br_w |-> br_w, sep |-> sep,
            ret |-> Return(<<>>)]
  /\ fp = IdleFp
  /\ gr = IdleGr
  /\ m = IdleM

D_Call ==
  /\ d.pc = "call"
  /\ d' = [d EXCEPT !.pc = "done",
                    !.ret = Desc(d.trel, d.w, d.br_w, d.sep)]
  /\ UNCHANGED <<fp, gr, m>>

NextDesc == D_Call

SpecDesc == InitDesc /\ [][NextDesc]_vars

(***************************************************************************)
(* SpecPeaks: the peak detection of ms_report, stage by stage, on bounded  *)
(* transmittance arrays.                                                   *)
(***************************************************************************)
SigValues == {F(0), F(30), F(40), F(100)}

SigInputs == UNION {[1..n -> SigValues] : n \in 0..MaxSig}

ProminenceInputs == {F(5), F(50)}

DistanceInputs == {F(0), F(1), Fin(5, 2)}

\* a call of find_peaks(x, prominence=, width=, distance=), before it runs
FpCall(x, prominence, width, distance) ==
  [pc |-> "call", x |-> x, prominence |-> prominence, width |-> width,
   distance |-> distance, maxima |-> <<>>, dist |-> <<>>,
   prom |-> [peaks |-> <<>>, prom |-> <<>>],
   final |-> [peaks |-> <<>>, widths |-> <<>>]]

InitPeaks ==
  /\ \E ir_t \in SigInputs, prominence \in ProminenceInputs,
        distance \in DistanceInputs :
       fp = FpCall(Inverted(ir_t), prominence, F(1), distance)
  /\ d = IdleD
  /\ gr = IdleGr
  /\ m = IdleM

\* find_peaks entry: the argument check, then _local_maxima_1d
FP_LocalMaxima ==
  /\ fp.pc = "call"
  /\ fp' = IF FLt(fp.distance, F(1))
           THEN [fp EXCEPT !.pc = "raised"]
           ELSE [fp EXCEPT !.pc = "maxima", !.maxima = LocalMaxima(fp.x)]
  /\ UNCHANGED <<d, gr, m>>

\* if distance is not None: keep = _select_by_peak_distance(...)
FP_Distance ==
  /\ fp.pc = "maxima"
  /\ \E tb \in Permutations(1..Len(fp.maxima)) :
       fp' = [fp EXCEPT !.pc = "distance",
                        !.dist = StageDistance(fp.x, fp.maxima, fp.distance, tb)]
  /\ UNCHANGED <<d, gr, m>>

\* prominences of the remaining peaks, then the prominence condition
FP_Prominence ==
  /\ fp.pc = "distance"
  /\ fp' = [fp EXCEPT !.pc = "prominence",
                      !.prom = StageProminence(fp.x, fp.dist, fp.prominence)]
  /\ UNCHANGED <<d, gr, m>>

\* widths of the remaining peaks, then the width condition
FP_Width ==
  /\ fp.pc = "prominence"
  /\ fp' = [fp EXCEPT !.pc = "done",
                      !.final = StageWidth(fp.x, fp.prom.peaks, fp.prom.prom,
                                           fp.width)]
  /\ UNCHANGED <<d, gr, m>>

NextPeaks == FP_LocalMaxima \/ FP_Distance \/ FP_Prominence \/ FP_Width

SpecPeaks == InitPeaks /\ [][NextPeaks]_vars

(***************************************************************************)
(* SpecReport: process_file, ms_report and generate_report applied to      *)
(* bounded files and arguments.                                            *)
(***************************************************************************)
TValues == {F(40), F(100), F(110), F(120)}

TInputs == UNION {[1..n -> TValues] : n \in 0..MaxLen}

\* the cm-1 column: 1000 downwards or 990 upwards in steps of 2.5
Wavenumbers(n, layout) ==
  [i \in 1..n |-> IF layout = "descending"
                  THEN FSub(F(1000), FMul(F(i - 1), Fin(5, 2)))
                  ELSE FAdd(F(990), FMul(F(i - 1), Fin(5, 2)))]

AllCols == {"cm-1", "%T"}

File(t, layout) == [cols |-> AllCols, w |-> Wavenumbers(Len(t), layout), t |-> t]

\* a CSV without the %T column
NoTFile == [cols |-> {"cm-1"}, w |-> Wavenumbers(1, "descending"), t |-> <<>>]

\* a call of process_file, ms_report or generate_report, before it runs
ReportCall(call, file, normalize, sep, prominence, width, broad_width, distance) ==
  [pc |-> "call", call |-> call, file |-> file, normalize |-> normalize,
   sep |-> sep, prominence |-> prominence, width |-> width,
   broad_width |-> broad_width, distance |-> distance,
   x |-> <<>>, y |-> <<>>, peaks |-> <<>>, widths |-> <<>>, i |-> 0,
   yielded |-> <<>>, report |-> <<>>, overlay |-> <<>>, curve |-> <<>>,
   ret |-> Return(<<>>)]

InitReport ==
  /\ \/ \E t \in TInputs, normalize \in {0, 1} :
          gr = ReportCall("process_file", File(t, "descending"), normalize, " ",
                          F(5), F(1), F(1), F(1))
     \/ \E t \in TInputs, sep \in Seps :
          gr = ReportCall("ms_report", File(t, "descending"), 1, sep,
                          F(5), F(1), F(1), F(1))
     \/ \E t \in TInputs, normalize \in {0, 1}, layout \in {"descending", "ascending"} :
          gr = ReportCall("generate_report", File(t, layout), normalize, " ",
                          F(5), F(1), F(1), F(1))
     \/ gr = ReportCall("generate_report", NoTFile, 1, " ", F(5), F(1), F(1), F(1))
  /\ d = IdleD
  /\ fp = IdleFp
  /\ m = IdleM

\* process_file(file_name, normalize) called on its own
PF_Call ==
  /\ gr.pc = "call" /\ gr.call = "process_file"
  /\ gr' = [gr EXCEPT !.pc = "done", !.ret = ProcessFile(gr.file, gr.normalize)]
  /\ UNCHANGED <<d, fp, m>>

\* ms_report(ir_w, ir_t, ..., sep) called on its own, on the file's columns:
\* the generator is created, nothing of its body runs yet
MS_Create ==
  /\ gr.pc = "call" /\ gr.call = "ms_report"
  /\ gr' = [gr EXCEPT !.pc = "created", !.x = gr.file.w, !.y = gr.file.t]
  /\ UNCHANGED <<d, fp, m>>

\* generate_report up to the for loop: x, y = process_file(fname,
\* normalize=True), then the generator is created with the default sep
GR_ProcessFile ==
  /\ gr.pc = "call" /\ gr.call = "generate_report"
  /\ LET pf == ProcessFile(gr.file, 1)
     IN  gr' = IF pf.raised
               THEN [gr EXCEPT !.pc = "raised", !.ret = Raise(pf.exc)]
               ELSE [gr EXCEPT !.pc = "created", !.sep = " ",
                               !.x = pf.val.ir_w, !.y = pf.val.ir_t]
  /\ UNCHANGED <<d, fp, m>>

\* the first next() of the generator: find_peaks(100 - ir_t, ...) is called
MS_FindPeaks ==
  /\ gr.pc = "created"
  /\ gr' = [gr EXCEPT !.pc = "find_peaks"]
  /\ fp' = FpCall(Inverted(gr.y), gr.prominence, gr.width, gr.distance)
  /\ UNCHANGED <<d, m>>

\* find_peaks returns or raises; widths = pkinfo["widths"] (np.average and
\* np.std of the widths only warn on an empty array)
MS_Found ==
  /\ gr.pc = "find_peaks" /\ fp.pc \in {"done", "raised"}
  /\ gr' = IF fp.pc = "raised"
           THEN [gr EXCEPT !.pc = "raised", !.ret = Raise("ValueError")]
           ELSE [gr EXCEPT !.pc = "loop", !.peaks = fp.final.peaks,
                           !.widths = fp.final.widths, !.i = 0]
  /\ fp' = IdleFp
  /\ UNCHANGED <<d, m>>

\* one turn of "for i, p in enumerate(peaks)": desc(ir_t[p], widths[i], br_w)
\* (sep is not passed on), the pair is yielded, and the consumer's loop
\* body runs: generate_report marks the plot and appends the report line
MS_Yield ==
  /\ gr.pc = "loop" /\ gr.i < Len(gr.peaks)
  /\ LET p == gr.peaks[gr.i + 1]
         de == Desc(At(gr.y, p), gr.widths[gr.i + 1], gr.broad_width, " ")
     IN  gr' = IF de.raised
               THEN [gr EXCEPT !.pc = "raised", !.ret = Raise(de.exc)]
               ELSE IF gr.call = "generate_report"
               THEN [gr EXCEPT !.i = @ + 1,
                               !.yielded = Append(@, [p |-> p, de |-> de.val]),
                               !.overlay = Append(@, OverlayMark(gr.x, gr.y, p, de.val)),
                               !.report = ReportAppend(@, ReportEntry(gr.x, p, de.val))]
               ELSE [gr EXCEPT !.i = @ + 1,
                               !.yielded = Append(@, [p |-> p, de |-> de.val])]
  /\ UNCHANGED <<d, fp, m>>

\* the generator is exhausted: generate_report plots the curve and returns
\* the report
MS_Stop ==
  /\ gr.pc = "loop" /\ gr.i = Len(gr.peaks)
  /\ gr' = IF gr.call = "generate_report"
           THEN [gr EXCEPT !.pc = "done", !.curve = gr.y, !.ret = Return(gr.report)]
           ELSE [gr EXCEPT !.pc = "done", !.ret = Return(gr.yielded)]
  /\ UNCHANGED <<d, fp, m>>

NextGenerator ==
  \/ GR_ProcessFile \/ MS_FindPeaks \/ NextPeaks \/ MS_Found \/ MS_Yield \/ MS_Stop

NextReport == PF_Call \/ MS_Create \/ NextGenerator

SpecReport == InitReport /\ [][NextReport]_vars

(***************************************************************************)
(* Spec: main, the batch run over the files of the command line. A file    *)
(* name is a string (a sequence of tokens); the directory holds the files  *)
(* below, and the stand-alone calls above become the calls main makes.     *)
(***************************************************************************)
Cwd == <<"/", "home", "/", "lab">>

FlatCsv == <<"flat", ".csv">>

OneCsv == <<"one", ".csv">>

TwoCsv == <<"/", "data", "/", "two", ".csv">>

OverCsv == <<"over", ".csv">>

BadCsv == <<"bad", ".csv">>

NoneCsv == <<"none", ".csv">>

OStarCsv == <<"o", "*", ".csv">>

Floats(a) == [i \in 1..Len(a) |-> F(a[i])]

\* the content of the files that exist
FileAt(f) ==
  CASE f = FlatCsv -> File(Floats(<<100, 100, 100>>), "descending")
    [] f = OneCsv -> File(Floats(<<100, 40, 100>>), "descending")
    [] f = TwoCsv -> File(Floats(<<100, 40, 40, 100, 70, 100>>), "descending")
    [] f = OverCsv -> File(Floats(<<100, 40, 120, 110, 120>>), "descending")
    [] f = BadCsv -> NoTFile

Existing == {FlatCsv, OneCsv, TwoCsv, OverCsv, BadCsv}

Patterns == Existing \cup {NoneCsv, OStarCsv}

\* glob(f): the existing files that match, in the order the directory
\* listing gives them
Glob(f) ==
  IF f = OStarCsv THEN {<<OneCsv, OverCsv>>, <<OverCsv, OneCsv>>}
  ELSE IF f \in Existing THEN {<<f>>}
  ELSE {<<>>}

\* get_all_files: all_files.extend(glob(f)) for f in file_args
RECURSIVE GetAllFiles(_)
GetAllFiles(file_args) ==
  IF Len(file_args) = 0 THEN {<<>>}
  ELSE {g \o rest : g \in Glob(file_args[1]), rest \in GetAllFiles(Tail(file_args))}

\* os.path.abspath
Abspath(f) == IF f[1] = "/" THEN f ELSE Cwd \o <<"/">> \o f

\* f.removesuffix(".csv")
RemoveSuffix(f, suffix) ==
  IF Len(f) > 0 /\ f[Len(f)] = suffix THEN SubSeq(f, 1, Len(f) - 1) ELSE f

\* ~b on a bool
BitNot(b) == -b - 1

\* ", ".join(report), each report line a string
RECURSIVE JoinLines(_, _)
JoinLines(sep, lines) ==
  IF Len(lines) = 0 THEN <<>>
  ELSE IF Len(lines) = 1 THEN lines[1]
  ELSE lines[1] \o <<sep>> \o JoinLines(sep, Tail(lines))

\* print(line, file=outstream)
PrintOut(mm, line) ==
  IF mm.outstream = "stdout" THEN [mm EXCEPT !.stdout = Append(@, line)]
  ELSE [mm EXCEPT !.outfile = Append(@, line)]

Banner ==
  LET rule == <<"================================================================================">>
  IN  <<rule, <<"IR Spectral Processing (C) Alexander Shved and the Denmark Lab">>, rule>>

ArgvInputs ==
  {[files |-> fs, output |-> o, raw |-> r, peak_min_prominence |-> F(5),
    peak_min_width |-> F(1), broad_peak_min_width |-> F(1),
    peak_min_distance |-> F(1)] :
     fs \in UNION {[1..n -> Patterns] : n \in 1..MaxFiles},
     o \in {<<>>, <<"out", ".txt">>}, r \in {0, 1}}

Init ==
  /\ \E argv \in ArgvInputs :
       m = [pc |-> "start", argv |-> argv, all_files |-> <<>>,
            outstream |-> "", stdout |-> <<>>, stderr |-> <<>>, outfile |-> <<>>,
            k |-> 0, printed |-> <<>>, reports |-> <<>>, code |-> 0]
  /\ d = IdleD
  /\ fp = IdleFp
  /\ gr = IdleGr

\* the banner, parse_args, get_all_files
Main_GetAllFiles ==
  /\ m.pc = "start"
  /\ \E all_files \in GetAllFiles(m.argv.files) :
       m' = [m EXCEPT !.pc = "open", !.stderr = Banner, !.all_files = all_files]
  /\ UNCHANGED <<d, fp, gr>>

\* outstream = open(parsed.output, "at") if parsed.output else stdout
Main_OpenOutput ==
  /\ m.pc = "open"
  /\ m' = [m EXCEPT !.pc = "check",
                    !.outstream = IF m.argv.output # <<>> THEN "file" ELSE "stdout"]
  /\ UNCHANGED <<d, fp, gr>>

\* exit(1) without files, else the count of files is printed (to stdout)
Main_CheckFiles ==
  /\ m.pc = "check"
  /\ m' = IF Len(m.all_files) = 0
          THEN [m EXCEPT !.pc = "exit", !.code = 1,
                         !.stderr = Append(@, <<"No valid files to process. Exiting...">>)]
          ELSE [m EXCEPT !.pc = "header", !.k = 1,
                         !.stdout = Append(@, <<"Requested to process ",
                                                ToString(Len(m.all_files)),
                                                " files.">>)]
  /\ UNCHANGED <<d, fp, gr>>

\* for f in all_files: print(f">>> {os.path.abspath(f)}", file=outstream)
Main_Header ==
  /\ m.pc = "header" /\ m.k <= Len(m.all_files)
  /\ LET line == <<">>> ">> \o Abspath(m.all_files[m.k])
     IN  m' = [PrintOut(m, line) EXCEPT !.pc = "process", !.printed = Append(@, line)]
  /\ UNCHANGED <<d, fp, gr>>

\* the loop is over: main returns
Main_Done ==
  /\ m.pc = "header" /\ m.k > Len(m.all_files)
  /\ m' = [m EXCEPT !.pc = "exit", !.code = 0]
  /\ UNCHANGED <<d, fp, gr>>

\* ir_w, ir_t = process_file(f): the result is not used, an exception ends main
Main_ProcessFile ==
  /\ m.pc = "process"
  /\ m' = IF ProcessFile(FileAt(m.all_files[m.k]), 1).raised
          THEN [m EXCEPT !.pc = "crashed", !.code = 1]
          ELSE [m EXCEPT !.pc = "report"]
  /\ UNCHANGED <<d, fp, gr>>

\* report = generate_report(f, normalize=~parsed.raw, ...): the call
Main_GenerateReport ==
  /\ m.pc = "report"
  /\ m' = [m EXCEPT !.pc = "reporting"]
  /\ gr' = ReportCall("generate_report", FileAt(m.all_files[m.k]),
                      BitNot(m.argv.raw), " ", m.argv.peak_min_prominence,
                      m.argv.peak_min_width, m.argv.broad_peak_min_width,
                      m.argv.peak_min_distance)
  /\ UNCHANGED <<d, fp>>

\* generate_report raised: nothing catches it, main ends with a traceback
Main_ReportRaised ==
  /\ m.pc = "reporting" /\ gr.pc = "raised"
  /\ m' = [m EXCEPT !.pc = "crashed", !.code = 1]
  /\ gr' = IdleGr
  /\ UNCHANGED <<d, fp>>

\* generate_report returned: the plot message (to stderr) and the summary
\* line print(f"IR (ATR): {_rep}.", file=outstream)
Main_Summary ==
  /\ m.pc = "reporting" /\ gr.pc = "done"
  /\ LET f == m.all_files[m.k]
         fname == RemoveSuffix(f, ".csv")
         report == gr.ret.val
         line == <<"IR (ATR): ">> \o JoinLines(", ", report) \o <<".">>
     IN  m' = [PrintOut(m, line) EXCEPT
                 !.pc = "header", !.k = @ + 1,
                 !.stderr = Append(@, <<"Plot", " ">> \o f \o <<" ", "-->", " ">>
                                        \o fname \o <<".svg">>),
                 !.printed = Append(@, line),
                 !.reports = Append(@, report)]
  /\ gr' = IdleGr
  /\ UNCHANGED <<d, fp>>

NextMain ==
  \/ Main_GetAllFiles \/ Main_OpenOutput \/ Main_CheckFiles \/ Main_Header
  \/ Main_Done \/ Main_ProcessFile \/ Main_GenerateReport \/ Main_ReportRaised
  \/ Main_Summary

Next == NextMain \/ NextGenerator

Spec == Init /\ [][Next]_vars

(***************************************************************************)
(* Properties of the peak detection.                                       *)
(***************************************************************************)
Range(a) == {a[i] : i \in 1..Len(a)}

Dist(p, q) == Abs(p - q)

\* prominence and width of a local maximum taken on its own
OwnProminence(x, p) == PeakProminences(x, <<p>>)[1].prominence

OwnWidth(x, p) == PeakWidths(x, <<p>>, PeakProminences(x, <<p>>))[1]

PassesThresholds(x, p) ==
  /\ FLe(fp.prominence, OwnProminence(x, p))
  /\ FLe(fp.width, OwnWidth(x, p))

\* C9 as stated: of two candidates within min_distance only the one with
\* the greater prominence survives (on equal prominence the lower index),
\* and a candidate is removed for distance only by an accepted neighbour.
C9_ProminenceDecides ==
  fp.pc = "done"
    => LET cand == Range(fp.maxima)
           acc == Range(fp.final.peaks)
           Loses(p, q) ==
             \/ FLt(OwnProminence(fp.x, p), OwnProminence(fp.x, q))
             \/ (FEq(OwnProminence(fp.x, p), OwnProminence(fp.x, q)) /\ q < p)
       IN  /\ \A p \in cand, q \in cand :
                (p # q /\ Dist(p, q) < Ceil(fp.distance) /\ Loses(p, q))
                  => p \notin acc
           /\ \A p \in cand :
                (p \notin acc /\ PassesThresholds(fp.x, p))
                  => \E q \in acc : Dist(p, q) < Ceil(fp.distance)

\* C9 amended: the distance selection runs first and goes by height. Of two
\* local maxima within min_distance at most one survives it; a maximum is
\* removed for distance only by a neighbour at least as high that survives
\* the distance selection (and may still fail the prominence or width
\* condition afterwards); only survivors of it can be accepted.
C9_HeightDecides ==
  fp.pc \in {"distance", "prominence", "done"}
    => LET cand == Range(fp.maxima)
           kept == Range(fp.dist)
       IN  /\ \A p \in kept, q \in kept :
                p # q => Dist(p, q) >= Ceil(fp.distance)
           /\ \A p \in cand \ kept :
                \E q \in kept : /\ Dist(p, q) < Ceil(fp.distance)
                                /\ FLe(At(fp.x, p), At(fp.x, q))
           /\ kept \subseteq cand
           /\ Range(fp.prom.peaks) \subseteq kept
           /\ Range(fp.final.peaks) \subseteq Range(fp.prom.peaks)

\* a higher, less prominent maximum removed its neighbour and was then
\* rejected by the prominence condition
C9_Witness ==
  /\ fp.pc = "done"
  /\ Len(fp.maxima) = 2 /\ Len(fp.dist) = 1 /\ Len(fp.final.peaks) = 0
  /\ \E p \in Range(fp.maxima) \ Range(fp.dist) :
       /\ PassesThresholds(fp.x, p)
       /\ FLt(At(fp.x, p), At(fp.x, fp.dist[1]))
       /\ FLt(OwnProminence(fp.x, fp.dist[1]), OwnProminence(fp.x, p))

(***************************************************************************)
(* Properties of desc.                                                     *)
(***************************************************************************)
IntensityTags == {"s", "m", "w"}

IntensityCount(str) == Cardinality({i \in 1..Len(str) : str[i] \in IntensityTags})

HasToken(str, tok) == \E i \in 1..Len(str) : str[i] = tok

\* C1: for every transmittance t with 0 <= t <= 100, desc returns a string
\* with exactly one intensity tag: "s" for 0 <= t <= 33, "m" for 33 < t <= 66
\* (t = 66 included), "w" for 66 < t <= 100; no t in [0, 100] raises.
C1_BucketsCoverRange ==
  (d.pc = "done" /\ FLe(F(0), d.trel) /\ FLe(d.trel, F(100)))
    => /\ ~d.ret.raised
       /\ IntensityCount(d.ret.val) = 1
       /\ HasToken(d.ret.val,
                   IF FLe(d.trel, F(33)) THEN "s"
                   ELSE IF FLe(d.trel, F(66)) THEN "m" ELSE "w")

\* C3: for every in-range t, the string returned by desc contains "br" iff
\* w > br_w (strictly); "br" follows the intensity tag, and the result is
\* "(x)" or "(x<sep>br)" with x in {s, m, w}.
C3_BreadthFlag ==
  (d.pc = "done" /\ ~d.ret.raised)
    => LET str == d.ret.val
       IN  /\ HasToken(str, "br") <=> FLt(d.br_w, d.w)
           /\ Len(str) \in {3, 5}
           /\ str[1] = "(" /\ str[Len(str)] = ")"
           /\ str[2] \in IntensityTags
           /\ Len(str) = 5 => (str[3] = d.sep /\ str[4] = "br")

C3_Witness ==
  /\ d.pc = "done" /\ ~d.ret.raised
  /\ FLt(d.br_w, d.w)
  /\ d.sep = ","
  /\ d.ret.val = <<"(", "m", ",", "br", ")">>

\* C2: for every transmittance t that is negative or greater than 100, desc
\* raises and returns no string (no clamping); so no peak with an
\* out-of-range transmittance is ever yielded with a descriptor or written
\* to a report.
C2_OutOfRangeRaises ==
  /\ (d.pc = "done" /\ (FLt(d.trel, F(0)) \/ FLt(F(100), d.trel)))
       => (d.ret.raised /\ d.ret.val = <<>>)
  /\ gr.pc \in {"loop", "done", "raised"}
       => /\ \A k \in 1..Len(gr.yielded) :
               /\ FLe(F(0), At(gr.y, gr.yielded[k].p))
               /\ FLe(At(gr.y, gr.yielded[k].p), F(100))
          /\ Len(gr.report) <= Len(gr.yielded)
          /\ (gr.pc = "raised" /\ gr.call = "generate_report") => gr.ret.val = <<>>

\* generate_report detected a second peak with a transmittance above 100:
\* desc raised on it and no report was returned
C2_Witness ==
  /\ gr.pc = "raised" /\ gr.call = "generate_report"
  /\ gr.ret.exc = "ValueError"
  /\ Len(gr.peaks) = 2 /\ gr.i = 1
  /\ FLt(F(100), At(gr.y, gr.peaks[2]))

SpecDescReport == (InitDesc \/ InitReport) /\ [][NextDesc \/ NextReport]_vars

(***************************************************************************)
(* Properties of process_file, ms_report and generate_report.              *)
(***************************************************************************)
StrictlyIncreasing(a) == \A i \in 1..Len(a), j \in 1..Len(a) : i < j => a[i] < a[j]

\* C4: when generate_report succeeds, the report has exactly one line per
\* peak of the detector, in strictly increasing sample index, whatever the
\* storage order of the wavenumbers, and line k prints the wavenumber at
\* the k-th detected index.
C4_ReportInIndexOrder ==
  (gr.pc = "done" /\ gr.call = "generate_report")
    => /\ Len(gr.ret.val) = Len(gr.peaks)
       /\ StrictlyIncreasing(gr.peaks)
       /\ \A k \in 1..Len(gr.ret.val) :
            gr.ret.val[k][1] = Fmt0f(At(gr.file.w, gr.peaks[k]))

\* two peaks of a spectrum stored in descending wavenumber
C4_Witness ==
  /\ gr.pc = "done" /\ gr.call = "generate_report"
  /\ Len(gr.ret.val) = 2
  /\ FLt(At(gr.file.w, gr.peaks[2]), At(gr.file.w, gr.peaks[1]))
  /\ gr.ret.val[1][1] = "998" /\ gr.ret.val[2][1] = "992"

\* 100 - 100 * (100 - T) / max(100 - T), elementwise
NormalizedT(t) ==
  LET inv == [i \in 1..Len(t) |-> FSub(F(100), t[i])]
  IN  [i \in 1..Len(t) |->
         FSub(F(100), FDiv(FMul(F(100), inv[i]), NpMax(inv)))]

\* C5: with normalization disabled the transmittance the detector, the
\* classifier and the overlay see is the raw %T, elementwise; with it
\* enabled it is 100 - 100*(100 - T)/max(100 - T).
C5_NormalizeFlagHonoured ==
  (gr.call = "generate_report" /\ gr.pc \in {"created", "find_peaks", "loop", "done"})
    => LET expected == IF Truthy(gr.normalize) THEN NormalizedT(gr.file.t)
                       ELSE gr.file.t
       IN  /\ gr.y = expected
           /\ \A k \in 1..Len(gr.overlay) :
                gr.overlay[k].y = At(expected, gr.yielded[k].p)
           /\ gr.pc = "done" => gr.curve = expected

\* C8: with normalization enabled and max(100 - T) = 0 (every %T is 100),
\* process_file raises or returns only defined numbers, never NaN.
C8_FlatSpectrumDefined ==
  (/\ gr.call = "process_file" /\ gr.pc = "done"
   /\ Truthy(gr.normalize)
   /\ Len(gr.file.t) > 0
   /\ \A i \in 1..Len(gr.file.t) : gr.file.t[i] = F(100))
    => \/ gr.ret.raised
       \/ \A i \in 1..Len(gr.ret.val.ir_t) : IsFin(gr.ret.val.ir_t[i])

\* C10: every descriptor ms_report yields for a broad peak is
\* "(" + intensity tag + sep + "br" + ")" with the sep it was called with.
C10_SeparatorPassedOn ==
  gr.call = "ms_report"
    => \A k \in 1..Len(gr.yielded) :
         LET de == gr.yielded[k].de
         IN  HasToken(de, "br")
               => (Len(de) = 5 /\ de[1] = "(" /\ de[2] \in IntensityTags
                   /\ de[3] = gr.sep /\ de[4] = "br" /\ de[5] = ")")

(***************************************************************************)
(* Properties of main.                                                     *)
(***************************************************************************)
\* what main has written to the stream the report goes to
ReportStream == IF m.outstream = "stdout" THEN m.stdout ELSE m.outfile

\* C6: for a batch of files that all analyse successfully, the report
\* stream written by main holds, for the files in resolved order, exactly
\* two lines per file: ">>> <absolute path>", then "IR (ATR): " + the
\* file's report entries joined by ", " + "."; a file without peaks gives
\* "IR (ATR): .".
C6_TwoLinesPerFile ==
  (m.pc = "exit" /\ m.code = 0)
    => /\ Len(ReportStream) = 2 * Len(m.all_files)
       /\ \A k \in 1..Len(m.all_files) :
            /\ ReportStream[2 * k - 1] = <<">>> ">> \o Abspath(m.all_files[k])
            /\ ReportStream[2 * k]
                 = <<"IR (ATR): ">> \o JoinLines(", ", m.reports[k]) \o <<".">>
            /\ m.reports[k] = <<>> => ReportStream[2 * k] = <<"IR (ATR): ", ".">>

\* C7: a file's report is all-or-nothing: when main has ended, the lines it
\* printed to the report stream hold for each file its header line followed
\* by its summary line, or nothing of it.
C7_AllOrNothing ==
  m.pc \in {"exit", "crashed"}
    => /\ Len(m.printed) % 2 = 0
       /\ \A j \in 1..Len(m.printed) :
            IF j % 2 = 1 THEN m.printed[j][1] = ">>> "
            ELSE m.printed[j][1] = "IR (ATR): "

=============================================================================
